---- MODULE Spec2Model ----
(***************************************************************************)
(* Model of the course assistant's tool-call orchestration (src/main.py)   *)
(* and of the capabilities it calls (src/tools).                           *)
(*                                                                         *)
(* Texts.  A text is a sequence of tokens.  A one-character token is a     *)
(* character; the texts whose characters the code inspects (user text,     *)
(* locations, dates, queries, the model's replies, the classifier's        *)
(* phrases) are spelled character by character.  A longer token is an      *)
(* atomic run of characters (a word of a tool's output, a lexeme of its    *)
(* JSON) that holds no blank and is none of the strings the code compares  *)
(* a text with.  None stands for Python's None where a text is optional:   *)
(* the code only tests such values for truth, and no text it builds there  *)
(* is empty.                                                               *)
(***************************************************************************)
EXTENDS Integers, Sequences, FiniteSets, TLC

\* F applied to the value of v.  TLC evaluates v once here, where an operator's
\* argument or a LET definition may be evaluated again at every use.
Let(v, F(_)) == CHOOSE r \in {F(x) : x \in {v}} : TRUE

(* ------------------------------ strings ------------------------------ *)

Whitespace == {" ", "\n", "\t"}

UpperCase == <<"A", "B", "C", "D", "E", "F", "G", "H", "I", "J", "K", "L", "M",
               "N", "O", "P", "Q", "R", "S", "T", "U", "V", "W", "X", "Y", "Z">>

LowerCase == <<"a", "b", "c", "d", "e", "f", "g", "h", "i", "j", "k", "l", "m",
               "n", "o", "p", "q", "r", "s", "t", "u", "v", "w", "x", "y", "z">>

Digits == <<"0", "1", "2", "3", "4", "5", "6", "7", "8", "9">>

\* the lower-case letter of each upper-case letter
to_lower ==
    [c \in {UpperCase[i] : i \in DOMAIN UpperCase} |->
        LowerCase[CHOOSE i \in DOMAIN UpperCase : UpperCase[i] = c]]

\* str.lower() on one character
lower_char(c) == IF c \in DOMAIN to_lower THEN to_lower[c] ELSE c

\* str.lower()
lower(text) == Let(text, LAMBDA s : [i \in 1..Len(s) |-> lower_char(s[i])])

\* the positions of s that hold no whitespace
inked(s) == {i \in DOMAIN s : s[i] \notin Whitespace}

\* str.strip(): from the first to the last character that is no whitespace
strip(text) ==
    Let(text, LAMBDA s :
        Let(inked(s), LAMBDA ink :
            IF ink = {} THEN <<>>
            ELSE SubSeq(s, CHOOSE i \in ink : \A j \in ink : i <= j,
                           CHOOSE i \in ink : \A j \in ink : j <= i)))

\* Python's  sub in s  on strings
contains(sub, text) ==
    Let(text, LAMBDA s : \E i \in 0..(Len(s) - Len(sub)) : SubSeq(s, i + 1, i + Len(sub)) = sub)

RECURSIVE join_from(_, _, _)
join_from(sep, parts, i) ==
    IF i > Len(parts) THEN <<>>
    ELSE IF i = Len(parts) THEN parts[i]
    ELSE parts[i] \o sep \o join_from(sep, parts, i + 1)

\* sep.join(parts)
join(sep, parts) == Let(parts, LAMBDA ps : join_from(sep, ps, 1))

(* ------------------------ literals of the code ----------------------- *)

S_exam == <<"e", "x", "a", "m">>

S_deadline == <<"d", "e", "a", "d", "l", "i", "n", "e">>

\* the first set of _is_social_or_useless; its second phrase has the typographic
\* apostrophe U+2019, written here as the token "U+2019"
social ==
    {<<"y", "o", "u", "'", "r", "e", " ", "w", "e", "l", "c", "o", "m", "e", "!">>,
     <<"y", "o", "u", "U+2019", "r", "e", " ", "w", "e", "l", "c", "o", "m", "e", "!">>,
     <<"w", "e", "l", "c", "o", "m", "e", "!">>,
     <<"n", "o", " ", "p", "r", "o", "b", "l", "e", "m">>,
     <<"n", "p">>, <<"o", "k">>, <<"o", "k", "a", "y">>, <<"s", "u", "r", "e">>,
     <<"t", "h", "a", "n", "k", "s">>, <<"t", "h", "a", "n", "k", " ", "y", "o", "u">>,
     <<"g", "r", "e", "a", "t">>, <<"c", "o", "o", "l">>}

\* the second set of _is_social_or_useless
filler == {<<"o", "k">>, <<"k">>, <<"s", "u", "r", "e">>, <<"y", "e", "s">>, <<"n", "o">>}

\* the placeholder locations of tool_node
bad_locs ==
    {<<"c", "u", "r", "r", "e", "n", "t", " ", "l", "o", "c", "a", "t", "i", "o", "n">>,
     <<"m", "y", " ", "l", "o", "c", "a", "t", "i", "o", "n">>,
     <<"h", "e", "r", "e">>, <<"n", "o", "w">>, <<"t", "o", "d", "a", "y">>,
     <<"l", "o", "c", "a", "l">>, <<"l", "o", "c", "a", "t", "i", "o", "n">>}

\* the reserved id of the chained result
AUTO_CHAINED_ID == "auto_chained_exam_weather"

(* --------------------------- main.py helpers -------------------------- *)

\* _is_social_or_useless without lower()
is_social_or_useless_case_sensitive(text) ==
    IF text = <<>> THEN TRUE
    ELSE Let(strip(text), LAMBDA t :
         IF t \in social THEN TRUE
         ELSE IF Len(t) <= 4 /\ t \in filler THEN TRUE
         ELSE FALSE)

\* _is_social_or_useless(text)
is_social_or_useless(text) ==
    IF text = <<>> THEN TRUE
    ELSE Let(lower(strip(text)), LAMBDA t :
         IF t \in social THEN TRUE
         ELSE IF Len(t) <= 4 /\ t \in filler THEN TRUE
         ELSE FALSE)

\* _user_requested_weather_on_exam_day(user_text)
user_requested_weather_on_exam_day(user_text) ==
    Let(lower(user_text), LAMBDA t :
        /\ contains(S_exam, t)
        /\ contains(<<"w", "e", "a", "t", "h", "e", "r">>, t)
        /\ \/ contains(<<"t", "h", "a", "t", " ", "d", "a", "y">>, t)
           \/ contains(<<"s", "p", "e", "c", "i", "f", "i", "c", " ", "d", "a", "y">>, t)
           \/ contains(<<"e", "x", "a", "m", " ", "d", "a", "y">>, t))

(* ------------------------------- json -------------------------------- *)

None == <<>>

\* a JSON value of the flat objects the calendar emits: a string or a boolean
json_str(text) == [is_str |-> TRUE, str |-> text, bool |-> FALSE]

json_bool(b) == [is_str |-> FALSE, str |-> <<>>, bool |-> b]

\* Python's truth of a JSON value
truthy(v) == IF v.is_str THEN v.str # <<>> ELSE v.bool

json_value_text(v) ==
    IF v.is_str THEN <<"\"">> \o v.str \o <<"\"">>
    ELSE IF v.bool THEN <<"true">> ELSE <<"false">>

RECURSIVE json_members_text(_)
json_members_text(members) ==
    IF members = <<>> THEN <<>>
    ELSE <<members[1][1], ":">> \o json_value_text(members[1][2])
         \o (IF Len(members) = 1 THEN <<>> ELSE <<",">> \o json_members_text(Tail(members)))

\* json.dumps(obj), obj a sequence of <<key, value>>
json_dumps(obj) == <<"{">> \o json_members_text(obj) \o <<"}">>

\* index of the first token c of s at or after i, 0 when there is none
index_from(s, c, i) ==
    Let({j \in i..Len(s) : s[j] = c}, LAMBDA at :
        IF at = {} THEN 0 ELSE CHOOSE j \in at : \A k \in at : j <= k)

RECURSIVE json_parse_members(_, _, _)
\* the members of s from position i on, after those of acc
json_parse_members(s, i, acc) ==
    IF i + 2 > Len(s) \/ s[i + 1] # ":" THEN [ok |-> FALSE, obj |-> <<>>]
    ELSE IF s[i + 2] \in {"true", "false"}
    THEN IF i + 2 = Len(s)
         THEN [ok |-> TRUE, obj |-> Append(acc, <<s[i], json_bool(s[i + 2] = "true")>>)]
         ELSE IF s[i + 3] # "," THEN [ok |-> FALSE, obj |-> <<>>]
         ELSE json_parse_members(s, i + 4, Append(acc, <<s[i], json_bool(s[i + 2] = "true")>>))
    ELSE IF s[i + 2] # "\"" THEN [ok |-> FALSE, obj |-> <<>>]
    ELSE Let(index_from(s, "\"", i + 3), LAMBDA close :
         IF close = 0 THEN [ok |-> FALSE, obj |-> <<>>]
         ELSE IF close = Len(s)
         THEN [ok |-> TRUE, obj |-> Append(acc, <<s[i], json_str(SubSeq(s, i + 3, close - 1))>>)]
         ELSE IF s[close + 1] # "," THEN [ok |-> FALSE, obj |-> <<>>]
         ELSE json_parse_members(s, close + 2,
                                 Append(acc, <<s[i], json_str(SubSeq(s, i + 3, close - 1))>>)))

\* json.loads(text): ok is FALSE where json.loads raises
json_loads(text) ==
    Let(text, LAMBDA t :
        IF Len(t) < 2 \/ t[1] # "{" \/ t[Len(t)] # "}" THEN [ok |-> FALSE, obj |-> <<>>]
        ELSE IF Len(t) = 2 THEN [ok |-> TRUE, obj |-> <<>>]
        ELSE json_parse_members(SubSeq(t, 2, Len(t) - 1), 1, <<>>))

has_key(obj, key) == \E i \in DOMAIN obj : obj[i][1] = key

\* dict.get(key) of a parsed object; callers test has_key first
get(obj, key) ==
    obj[CHOOSE i \in DOMAIN obj : obj[i][1] = key /\ \A j \in DOMAIN obj : obj[j][1] = key => j <= i][2]

is_digit(c) == \E i \in DOMAIN Digits : Digits[i] = c

\* re.match(r"^\d{4}-\d{2}-\d{2}$", s): $ also matches before a final newline
matches_iso_date(s) ==
    /\ Len(s) = 10 \/ (Len(s) = 11 /\ s[11] = "\n")
    /\ \A i \in {1, 2, 3, 4, 6, 7, 9, 10} : is_digit(s[i])
    /\ s[5] = "-"
    /\ s[8] = "-"

\* _extract_date_from_calendar_json(tool_text)
extract_date_from_calendar_json(tool_text) ==
    Let(json_loads(tool_text), LAMBDA parsed :
        IF /\ parsed.ok
           /\ has_key(parsed.obj, "found")
           /\ truthy(get(parsed.obj, "found"))
           /\ has_key(parsed.obj, "date")
           /\ get(parsed.obj, "date").is_str
           /\ matches_iso_date(get(parsed.obj, "date").str)
        THEN get(parsed.obj, "date").str
        ELSE None)

(* --------------------------- calendar_tool.py ------------------------- *)

RECURSIVE to_int_upto(_, _)
to_int_upto(s, n) == IF n = 0 THEN 0 ELSE 10 * to_int_upto(s, n - 1) + (CHOOSE i \in DOMAIN Digits : Digits[i] = s[n]) - 1

\* int(s) of a string of digits
to_int(s) == to_int_upto(s, Len(s))

RECURSIVE int_text(_)
\* str(n), n >= 0
int_text(n) ==
    IF n < 10 THEN <<Digits[n + 1]>>
    ELSE int_text(n \div 10) \o <<Digits[(n % 10) + 1]>>

is_leap(y) == (y % 4 = 0 /\ y % 100 # 0) \/ y % 400 = 0

days_in_month(y, m) ==
    IF m = 2 THEN (IF is_leap(y) THEN 29 ELSE 28)
    ELSE IF m \in {4, 6, 9, 11} THEN 30 ELSE 31

all_digits(s) == \A i \in DOMAIN s : is_digit(s[i])

NO_DATE == [ok |-> FALSE, y |-> 0, m |-> 0, d |-> 0]

\* datetime.strptime(s, "%Y-%m-%d"): ok is FALSE where it raises ValueError
strptime_date(text) ==
    Let(text, LAMBDA s :
        IF Len(s) < 8 \/ ~all_digits(SubSeq(s, 1, 4)) \/ s[5] # "-" THEN NO_DATE
        ELSE Let(index_from(s, "-", 6), LAMBDA dash :
             IF \/ dash \notin {7, 8}
                \/ Len(s) - dash \notin {1, 2}
                \/ ~all_digits(SubSeq(s, 6, dash - 1))
                \/ ~all_digits(SubSeq(s, dash + 1, Len(s)))
             THEN NO_DATE
             ELSE Let([ok |-> TRUE, y |-> to_int(SubSeq(s, 1, 4)),
                       m |-> to_int(SubSeq(s, 6, dash - 1)),
                       d |-> to_int(SubSeq(s, dash + 1, Len(s)))], LAMBDA t :
                  IF t.m \in 1..12 /\ t.d \in 1..days_in_month(t.y, t.m) THEN t ELSE NO_DATE)))

RECURSIVE days_before_month(_, _)
days_before_month(y, m) ==
    IF m = 1 THEN 0 ELSE days_before_month(y, m - 1) + days_in_month(y, m - 1)

\* date.toordinal()
ordinal(y, m, d) ==
    LET p == y - 1 IN
    365 * p + (p \div 4) - (p \div 100) + (p \div 400) + days_before_month(y, m) + d

\* the ordinal of the day of an event's date (a date the store holds parses)
event_day(e) == Let(strptime_date(e.date), LAMBDA t : ordinal(t.y, t.m, t.d))

\* datetime(date of e, 00:00) >= clock, the clock being [day, midnight]
not_before(e, clock) ==
    Let(event_day(e), LAMBDA day : day > clock.day \/ (day = clock.day /\ clock.midnight))

\* (datetime(date of e, 00:00) - clock).days
days_until(e, clock) ==
    IF clock.midnight THEN event_day(e) - clock.day ELSE event_day(e) - clock.day - 1

\* ord() order of the characters of dates and times
CharOrder == <<"-", "0", "1", "2", "3", "4", "5", "6", "7", "8", "9", ":">>

ord(c) == CHOOSE i \in DOMAIN CharOrder : CharOrder[i] = c

RECURSIVE str_lt(_, _)
\* Python's a < b on strings
str_lt(a, b) ==
    IF b = <<>> THEN FALSE
    ELSE IF a = <<>> THEN TRUE
    ELSE IF Head(a) = Head(b) THEN str_lt(Tail(a), Tail(b))
    ELSE ord(Head(a)) < ord(Head(b))

RECURSIVE insert_sorted(_, _)
\* e put before the first event whose key (date, time) is greater
insert_sorted(sorted, e) ==
    IF sorted = <<>> THEN <<e>>
    ELSE IF \/ str_lt(e.date, Head(sorted).date)
            \/ e.date = Head(sorted).date /\ str_lt(e.time, Head(sorted).time)
         THEN <<e>> \o sorted
    ELSE <<Head(sorted)>> \o insert_sorted(Tail(sorted), e)

RECURSIVE sort_events(_)
\* list.sort(key=lambda x: (x["date"], x["time"])): stable
sort_events(evs) ==
    IF evs = <<>> THEN <<>>
    ELSE Let(sort_events(SubSeq(evs, 1, Len(evs) - 1)), LAMBDA sorted :
             insert_sorted(sorted, evs[Len(evs)]))

Event(title, date, time, type) == [title |-> title, date |-> date, time |-> time, type |-> type]

\* CalendarTool._default_events
default_events ==
    << Event(<<"Information", " ", "Retrieval", " ", "Final", " ", "Project">>,
             <<"2", "0", "2", "6", "-", "0", "2", "-", "1", "5">>, <<"2", "3", ":", "5", "9">>, S_deadline),
       Event(<<"IR", " ", "Lecture", " ", "-", " ", "Advanced", " ", "Ranking">>,
             <<"2", "0", "2", "6", "-", "0", "2", "-", "0", "3">>, <<"1", "0", ":", "0", "0">>, <<"c", "l", "a", "s", "s">>),
       Event(<<"Machine", " ", "Learning", " ", "E", "x", "a", "m">>,
             <<"2", "0", "2", "6", "-", "0", "2", "-", "1", "0">>, <<"0", "9", ":", "0", "0">>, S_exam),
       Event(<<"Study", " ", "Group", " ", "-", " ", "RAG", " ", "Systems">>,
             <<"2", "0", "2", "6", "-", "0", "2", "-", "0", "5">>, <<"1", "4", ":", "0", "0">>, <<"m", "e", "e", "t", "i", "n", "g">>) >>

RECURSIVE filter_events(_, _, _)
\* [e for e in evs if keep(e)], keep being one of the tests below
filter_events(evs, test, clock) ==
    IF evs = <<>> THEN <<>>
    ELSE LET e == Head(evs)
             keep == CASE test = "future_exam" -> e.type = S_exam /\ not_before(e, clock)
                       [] test = "future_deadline" -> e.type = S_deadline /\ not_before(e, clock)
                       [] test = "matches_exam" ->
                            contains(S_exam, lower(e.title)) \/ contains(S_exam, lower(e.type))
                       [] test = "next_7_days" ->
                            not_before(e, clock) /\ event_day(e) <= clock.day + 7
         IN  (IF keep THEN <<e>> ELSE <<>>) \o filter_events(Tail(evs), test, clock)

\* CalendarTool.get_next_exam_json
get_next_exam_json(evs, clock) ==
    Let(sort_events(filter_events(evs, "future_exam", clock)), LAMBDA exams :
    IF exams = <<>>
    THEN json_dumps(<< <<"found", json_bool(FALSE)>>,
                       <<"reason", json_str(<<"No", " ", "upcoming", " ", "exams", " ", "found.">>)>> >>)
    ELSE json_dumps(<< <<"found", json_bool(TRUE)>>,
                       <<"title", json_str(exams[1].title)>>,
                       <<"date", json_str(exams[1].date)>>,
                       <<"time", json_str(exams[1].time)>>,
                       <<"type", json_str(exams[1].type)>> >>))

\* str.capitalize()
capitalize(s) ==
    [i \in 1..Len(s) |->
        IF i = 1 /\ \E k \in DOMAIN LowerCase : LowerCase[k] = s[1]
        THEN UpperCase[CHOOSE k \in DOMAIN LowerCase : LowerCase[k] = s[1]]
        ELSE lower_char(s[i])]

\* "Today" / "Tomorrow" / "In n days", with the suffix the caller uses
time_str(days, bang) ==
    Let(days, LAMBDA n :
    IF n = 0 THEN <<"Today">> \o bang
    ELSE IF n = 1 THEN <<"Tomorrow">> \o bang
    ELSE <<"In", " ">> \o int_text(n) \o <<" ", "days">>)

\* CalendarTool.get_next_deadline
get_next_deadline(evs, clock) ==
    Let(sort_events(filter_events(evs, "future_deadline", clock)), LAMBDA future :
    IF future = <<>> THEN <<"No", " ", "upcoming", " ", "deadlines", " ", "found.">>
    ELSE <<"(warning)", " ", " ", "Next", " ", "Deadline:", "\n">> \o future[1].title \o <<"\n">>
         \o <<"Due:", " ">> \o future[1].date \o <<" ", "at", " ">> \o future[1].time \o <<"\n">>
         \o <<"Time", " ", "remaining:", " ">> \o time_str(days_until(future[1], clock), <<"!">>))

RECURSIVE event_lines(_, _, _)
\* the per-event lines of get_upcoming_events (relative) and check_specific_event
event_lines(evs, relative, clock) ==
    IF evs = <<>> THEN <<>>
    ELSE LET e == Head(evs) IN
         <<"(calendar)", " ">> \o e.title \o <<"\n", " ", " ", " ">>
         \o (IF relative
             THEN time_str(days_until(e, clock), <<>>) \o <<" ", "(">> \o e.date \o <<")">>
             ELSE <<"Date:", " ">> \o e.date)
         \o <<" ", "at", " ">> \o e.time \o <<"\n", " ", " ", " ", "Type:", " ">>
         \o capitalize(e.type) \o <<"\n", "\n">>
         \o event_lines(Tail(evs), relative, clock)

\* CalendarTool.check_specific_event("exam")
check_specific_event_exam(evs, clock) ==
    Let(sort_events(filter_events(evs, "matches_exam", clock)), LAMBDA matches :
    IF matches = <<>> THEN <<"No", " ", "events", " ", "found", " ", "matching", " ", "'exam'.">>
    ELSE strip(<<"Found", " ">> \o int_text(Len(matches))
               \o <<" ", "event(s)", " ", "matching", " ", "'exam':", "\n", "\n">>
               \o event_lines(matches, FALSE, clock)))

\* CalendarTool.get_upcoming_events, days = 7
get_upcoming_events(evs, clock) ==
    Let(sort_events(filter_events(evs, "next_7_days", clock)), LAMBDA upcoming :
    IF upcoming = <<>>
    THEN <<"No", " ", "events", " ", "scheduled", " ", "in", " ", "the", " ", "next", " ", "7", " ", "days.">>
    ELSE strip(<<"Upcoming", " ", "events", " ", "(next", " ", "7", " ", "days):", "\n", "\n">>
               \o event_lines(upcoming, TRUE, clock)))

(* ----------------------------- the world ----------------------------- *)
(* What the external services answer.  The geocoder knows two places, the  *)
(* forecast covers two days, the index holds course notes, the holiday     *)
(* service knows one next holiday.  Each tools step runs with the network  *)
(* up or down.                                                             *)

L_Haifa == <<"H", "a", "i", "f", "a">>
L_Eilat == <<"E", "i", "l", "a", "t">>
D_exam == <<"2", "0", "2", "6", "-", "0", "2", "-", "1", "0">>
D_next == <<"2", "0", "2", "6", "-", "0", "2", "-", "1", "1">>
S_IL == <<"I", "L">>

Gazetteer == {L_Haifa, L_Eilat}

ForecastDays == <<D_exam, D_next>>


\* dict.get(key, default) of a call's arguments
arg(args, key, default) == IF key \in DOMAIN args THEN args[key] ELSE default

(* ----------------------------- weather_tool.py ------------------------ *)

\* WeatherTool._current_weather
current_weather(name, country) ==
    <<"Current", " ", "weather", " ", "in", " ">> \o name \o <<",", " ">> \o country
    \o <<":", "\n", "-", " ", "Temperature:", " ", "18", "C", "\n", "-", " ", "Wind:", " ", "9", " ", "km/h">>

\* WeatherTool._daily_forecast
daily_forecast(name, country, on_date) ==
    IF ~strptime_date(on_date).ok
    THEN <<"Error:", " ", "on_date", " ", "must", " ", "be", " ", "in", " ", "YYYY-MM-DD", " ", "format.">>
    ELSE IF ~(\E i \in DOMAIN ForecastDays : ForecastDays[i] = on_date)
    THEN <<"Forecast", " ", "not", " ", "available", " ", "for", " ">> \o on_date \o <<".", "\n">>
         \o <<"Available", " ", "forecast", " ", "range:", " ">> \o ForecastDays[1]
         \o <<" ", "to", " ">> \o ForecastDays[Len(ForecastDays)] \o <<".">>
    ELSE <<"Forecast", " ", "for", " ">> \o name \o <<",", " ">> \o country \o <<" ", "on", " ">> \o on_date
         \o <<":", "\n", "-", " ", "Temperature:", " ", "11", "C", " ", "to", " ", "17", "C">>

\* get_weather that asks for the weather of a location the lookup did not find
weather_get_weather_unchecked(location, on_date, net) ==
    IF net = "down"
    THEN <<"Error", " ", "connecting", " ", "to", " ", "geocoding", " ", "service">>
    ELSE IF on_date # None THEN daily_forecast(location, <<"Israel">>, on_date)
    ELSE current_weather(location, <<"Israel">>)

\* WeatherTool.get_weather with WeatherTool._geocode
weather_get_weather(location, on_date, net) ==
    IF net = "down"
    THEN <<"Error", " ", "connecting", " ", "to", " ", "geocoding", " ", "service">>
    ELSE IF location \notin Gazetteer
    THEN <<"Error:", " ", "Location", " ", "'">> \o location \o <<"'", " ", "not", " ", "found.">>
    ELSE IF on_date # None THEN daily_forecast(location, <<"Israel">>, on_date)
    ELSE current_weather(location, <<"Israel">>)

(* ------------------------------- rag_tool.py -------------------------- *)

\* RAGTool.search: the retrieved context, blank lines first
rag_search(query) ==
    <<"\n", "\n", "==========", "\n", "\n", "Chunk", " ", "1:", "\n", "Notes", " ", "on", " ">> \o query

(* ----------------------------- holiday_tool.py ------------------------ *)

\* HolidayTool._fetch_year: the error, None when the items arrive
fetch_year_error(country_code, net) ==
    IF strip(lower(country_code)) # lower(S_IL)
    THEN <<"Hebcal", " ", "tool", " ", "currently", " ", "supports", " ", "only", " ", "country_code='IL'.">>
    ELSE IF net = "down"
    THEN <<"Error", " ", "connecting", " ", "to", " ", "holidays", " ", "service">>
    ELSE None

\* HolidayTool.get_next_holiday
holiday_get_next_holiday(country_code, net) ==
    Let(fetch_year_error(country_code, net), LAMBDA err :
        IF err # None THEN err
        ELSE <<"Next", " ", "holiday", " ", "in", " ">> \o country_code
             \o <<":", " ", "2026-03-03", " ", "-", " ", "Purim.">>)

\* HolidayTool.get_holidays
holiday_get_holidays(year, country_code, net) ==
    Let(fetch_year_error(country_code, net), LAMBDA err :
        IF err # None THEN err
        ELSE <<"Holidays", " ", "in", " ">> \o country_code \o <<" ", "for", " ">> \o year
             \o <<" ", "(Hebcal):", "\n", "-", " ", "2026-03-03:", " ", "Purim">>)

\* HolidayTool.is_holiday
holiday_is_holiday(date_str, country_code, net) ==
    IF ~strptime_date(strip(date_str)).ok
    THEN <<"Error:", " ", "date", " ", "must", " ", "be", " ", "YYYY-MM-DD.">>
    ELSE Let(fetch_year_error(country_code, net), LAMBDA err :
         IF err # None THEN err
         ELSE <<"No", " ", "-", " ">> \o date_str
              \o <<" ", "is", " ", "not", " ", "a", " ", "(major)", " ", "holiday", " ", "in", " ">>
              \o country_code \o <<".">>)

(* ------------------------- the tools of main.py ----------------------- *)

\* the names of tool_dict
ToolNames == {"search_course_materials", "get_weather", "check_calendar",
              "get_next_holiday", "get_public_holidays", "is_public_holiday"}

HolidayNames == {"get_next_holiday", "get_public_holidays", "is_public_holiday"}

\* the parameters without a default of each @tool function
required_args(name) ==
    CASE name = "search_course_materials" -> {"query"}
      [] name = "get_weather" -> {"location"}
      [] name = "check_calendar" -> {}
      [] name = "get_next_holiday" -> {}
      [] name = "get_public_holidays" -> {"year"}
      [] name = "is_public_holiday" -> {"date_str"}

\* check_calendar(query)
check_calendar(query, evs, clock) ==
    Let(strip(lower(query)), LAMBDA q :
    IF contains(<<"n", "e", "x", "t", " ", "e", "x", "a", "m">>, q) THEN get_next_exam_json(evs, clock)
    ELSE IF contains(S_deadline, q) THEN get_next_deadline(evs, clock)
    ELSE IF contains(S_exam, q) \/ contains(<<"t", "e", "s", "t">>, q)
         THEN check_specific_event_exam(evs, clock)
    ELSE get_upcoming_events(evs, clock))

Returned(text) == [raised |-> FALSE, text |-> text]

Raised == [raised |-> TRUE, text |-> <<>>]

\* tool_dict[tool_name].invoke(tool_args): raised where the lookup, the argument
\* validation or the capability raises
invoke(name, args, net, evs, clock) ==
    IF name \notin ToolNames THEN Raised
    ELSE IF ~(required_args(name) \subseteq DOMAIN args) THEN Raised
    ELSE CASE name = "search_course_materials" ->
                IF net = "down" THEN Raised ELSE Returned(rag_search(args.query))
           [] name = "get_weather" ->
                Returned(weather_get_weather(args.location, arg(args, "on_date", None), net))
           [] name = "check_calendar" ->
                Returned(check_calendar(arg(args, "query", <<"u", "p", "c", "o", "m", "i", "n", "g">>), evs, clock))
           [] name = "get_next_holiday" ->
                Returned(holiday_get_next_holiday(arg(args, "country_code", S_IL), net))
           [] name = "get_public_holidays" ->
                Returned(holiday_get_holidays(args.year, arg(args, "country_code", S_IL), net))
           [] name = "is_public_holiday" ->
                Returned(holiday_is_holiday(args.date_str, arg(args, "country_code", S_IL), net))

(* ------------------------------ messages ----------------------------- *)

HumanMessage(content) ==
    [type |-> "human", content |-> content, tool_calls |-> <<>>, name |-> "", tool_call_id |-> ""]

AIMessage(content, tool_calls) ==
    [type |-> "ai", content |-> content, tool_calls |-> tool_calls, name |-> "", tool_call_id |-> ""]

ToolMessage(content, name, tool_call_id) ==
    [type |-> "tool", content |-> content, tool_calls |-> <<>>, name |-> name,
     tool_call_id |-> tool_call_id]

ToolCall(name, args, id) == [name |-> name, args |-> args, id |-> id]

\* add_messages as a plain assignment: what a node returns replaces the transcript
add_messages_overwriting(left, right) == right

\* the reducer of MessagesState: what a node returns is appended to the transcript
add_messages(left, right) == left \o right

\* _last_user_text(messages)
last_user_text(messages) ==
    IF \E i \in DOMAIN messages : messages[i].type = "human"
    THEN messages[CHOOSE i \in DOMAIN messages :
                    /\ messages[i].type = "human"
                    /\ \A j \in DOMAIN messages : messages[j].type = "human" => j <= i].content
    ELSE <<>>

NO_CITY ==
    <<"Error:", " ", "No", " ", "valid", " ", "city", " ", "provided.", " ", "Please", " ", "provide",
      " ", "a", " ", "real", " ", "city", " ", "(e.g.,", " ", "'Haifa,", " ", "Israel').">>

(* ------------------------------ tool_node ---------------------------- *)

\* the guard of tool_node on a weather call's location
rejected_location(loc) == lower(loc) \in bad_locs \/ Len(loc) < 2

\* the locals of tool_node before its loop; invoked logs the capability calls
loop_start ==
    [outputs |-> <<>>, exam_date |-> None, saw_weather_call_missing_date |-> FALSE,
     weather_location_used |-> None, invoked |-> <<>>, raised |-> FALSE]

\* the locals of tool_node after the loop body ran on tool_call with this result
loop_update(st, tool_call, guarded, result, maybe_date) ==
    [outputs |-> IF result.raised THEN st.outputs
                 ELSE Append(st.outputs, ToolMessage(result.text, tool_call.name, tool_call.id)),
     exam_date |-> IF maybe_date # None THEN maybe_date ELSE st.exam_date,
     saw_weather_call_missing_date |->
         IF tool_call.name = "get_weather" /\ ~guarded /\ arg(tool_call.args, "on_date", None) = None
         THEN TRUE
         ELSE st.saw_weather_call_missing_date,
     weather_location_used |->
         IF tool_call.name = "get_weather" /\ ~guarded
         THEN strip(arg(tool_call.args, "location", <<>>))
         ELSE st.weather_location_used,
     invoked |-> IF guarded THEN st.invoked
                 ELSE Append(st.invoked, [name |-> tool_call.name, args |-> tool_call.args]),
     raised |-> result.raised]

\* one pass of the loop body of tool_node
loop_body(st, tool_call, net, evs, clock) ==
    Let(tool_call.name = "get_weather"
            /\ rejected_location(strip(arg(tool_call.args, "location", <<>>))),
        LAMBDA guarded :
    Let(IF guarded THEN Returned(NO_CITY)
        ELSE invoke(tool_call.name, tool_call.args, net, evs, clock),
        LAMBDA result :
    Let(IF tool_call.name = "check_calendar" /\ ~result.raised
        THEN extract_date_from_calendar_json(result.text)
        ELSE None,
        LAMBDA maybe_date : loop_update(st, tool_call, guarded, result, maybe_date))))

RECURSIVE loop(_, _, _, _, _, _)
\* for tool_call in tool_calls, from the i-th call on, left when a call raises
loop(st, tool_calls, i, net, evs, clock) ==
    IF i > Len(tool_calls) \/ st.raised THEN st
    ELSE Let(loop_body(st, tool_calls[i], net, evs, clock),
             LAMBDA after : loop(after, tool_calls, i + 1, net, evs, clock))

\* the condition of the auto-chaining of tool_node
chain_fires(user_text, st) ==
    /\ user_requested_weather_on_exam_day(user_text)
    /\ st.exam_date # None
    /\ st.weather_location_used # None
    /\ st.saw_weather_call_missing_date

chained_args(st) == [location |-> st.weather_location_used, on_date |-> st.exam_date]

\* after_loop with the chained result put in front of the batch's results
after_loop_chained_first(user_text, st, net, evs, clock) ==
    IF st.raised \/ ~chain_fires(user_text, st) THEN st
    ELSE Let(invoke("get_weather", chained_args(st), net, evs, clock), LAMBDA chained :
         [st EXCEPT !.outputs = <<ToolMessage(chained.text, "get_weather", AUTO_CHAINED_ID)>> \o @,
                    !.invoked = Append(@, [name |-> "get_weather", args |-> chained_args(st)])])

\* tool_node(state) after its loop: the chained call and the returned outputs
after_loop(user_text, st, net, evs, clock) ==
    IF st.raised \/ ~chain_fires(user_text, st) THEN st
    ELSE Let(invoke("get_weather", chained_args(st), net, evs, clock), LAMBDA chained :
         [st EXCEPT !.outputs = IF chained.raised THEN @
                                ELSE Append(@, ToolMessage(chained.text, "get_weather", AUTO_CHAINED_ID)),
                    !.invoked = Append(@, [name |-> "get_weather", args |-> chained_args(st)]),
                    !.raised = chained.raised])

\* tool_node with exam_date kept from the calendar results of earlier steps
tool_node_keeping_exam_date(messages, net, evs, clock) ==
    LET earlier == {i \in DOMAIN messages :
                       /\ messages[i].type = "tool"
                       /\ messages[i].name = "check_calendar"
                       /\ extract_date_from_calendar_json(messages[i].content) # None}
        kept == IF earlier = {} THEN None
                ELSE extract_date_from_calendar_json(
                         messages[CHOOSE i \in earlier : \A j \in earlier : j <= i].content)
    IN  Let(loop([loop_start EXCEPT !.exam_date = kept],
                 messages[Len(messages)].tool_calls, 1, net, evs, clock),
            LAMBDA st : after_loop(last_user_text(messages), st, net, evs, clock))

\* tool_node(state): its locals when it returns or raises
tool_node(messages, net, evs, clock) ==
    Let(loop(loop_start, messages[Len(messages)].tool_calls, 1, net, evs, clock),
        LAMBDA st : after_loop(last_user_text(messages), st, net, evs, clock))

\* should_continue(state)
should_continue(messages) ==
    IF messages[Len(messages)].tool_calls # <<>> THEN "tools" ELSE "end"

(* --------------------------- answer composition ----------------------- *)

RECURSIVE unique_from(_, _)
unique_from(items, i) ==
    IF i > Len(items) THEN <<>>
    ELSE (IF \E j \in 1..(i - 1) : items[j] = items[i] THEN <<>> ELSE <<items[i]>>)
         \o unique_from(items, i + 1)

\* _unique_preserve_order(items)
unique_preserve_order(items) == Let(items, LAMBDA xs : unique_from(xs, 1))

RECURSIVE tool_names_of(_)
\* the names of the ToolMessages of chat, in transcript order
tool_names_of(messages) ==
    IF messages = <<>> THEN <<>>
    ELSE LET m == Head(messages) IN
         (IF m.type = "tool" /\ m.name # "" THEN <<m.name>> ELSE <<>>) \o tool_names_of(Tail(messages))

\* the content, stripped, of the first ToolMessage whose name is in names
first_output(messages, names) ==
    Let({i \in DOMAIN messages : messages[i].type = "tool" /\ messages[i].name \in names},
        LAMBDA at :
            IF at = {} THEN None
            ELSE strip(messages[CHOOSE i \in at : \A j \in at : i <= j].content))

\* the content, stripped, of the last ToolMessage whose name is in names; None without one
last_output(messages, names) ==
    Let({i \in DOMAIN messages : messages[i].type = "tool" /\ messages[i].name \in names},
        LAMBDA at :
            IF at = {} THEN None
            ELSE strip(messages[CHOOSE i \in at : \A j \in at : j <= i].content))

\* _extract_tool_outputs with get_next_holiday as the only holiday tool
extract_tool_outputs_one_holiday_tool(messages) ==
    [weather_out |-> last_output(messages, {"get_weather"}),
     calendar_out |-> last_output(messages, {"check_calendar"}),
     holiday_out |-> last_output(messages, {"get_next_holiday"}),
     rag_out |-> last_output(messages, {"search_course_materials"})]

\* _extract_tool_outputs(messages)
extract_tool_outputs(messages) ==
    [weather_out |-> last_output(messages, {"get_weather"}),
     calendar_out |-> last_output(messages, {"check_calendar"}),
     holiday_out |-> last_output(messages, HolidayNames),
     rag_out |-> last_output(messages, {"search_course_materials"})]

\* str(v) of a JSON value inside an f-string
value_text(v) == IF v.is_str THEN v.str ELSE IF v.bool THEN <<"True">> ELSE <<"False">>

\* obj.get(key, default) inside the f-string of _format_exam_json
field_text(obj, key, default) == IF has_key(obj, key) THEN value_text(get(obj, key)) ELSE default

\* _format_exam_json(calendar_out)
format_exam_json(calendar_out) ==
    Let(json_loads(calendar_out), LAMBDA parsed :
        IF /\ parsed.ok
           /\ has_key(parsed.obj, "found")
           /\ get(parsed.obj, "found") = json_bool(TRUE)
           /\ has_key(parsed.obj, "type")
           /\ get(parsed.obj, "type") = json_str(S_exam)
        THEN strip(<<"Next", " ", "exam:", " ">> \o field_text(parsed.obj, "title", <<"Exam">>)
                   \o <<"\n", "Date:", " ">> \o field_text(parsed.obj, "date", <<>>)
                   \o <<" ">> \o field_text(parsed.obj, "time", <<>>))
        ELSE None)

NO_EXPLANATION == <<"I", " ", "couldn't", " ", "generate", " ", "a", " ", "course", " ", "explanation.">>

RECURSIVE stripped_nonempty(_, _)
\* [p.strip() for p in parts if p and p.strip()], from the i-th part on
stripped_nonempty(parts, i) ==
    IF i > Len(parts) THEN <<>>
    ELSE Let(strip(parts[i]), LAMBDA p : IF p # <<>> THEN <<p>> ELSE <<>>)
         \o stripped_nonempty(parts, i + 1)

\* "\n\n".join(...).strip() of the sections
join_sections(parts) ==
    Let(parts, LAMBDA ps : strip(join(<<"\n", "\n">>, stripped_nonempty(ps, 1))))

\* pretty if pretty else calendar_out
pretty_or_raw(calendar_out) ==
    Let(format_exam_json(calendar_out), LAMBDA pretty :
        IF pretty # None THEN pretty ELSE calendar_out)

\* tool_sections in the order holiday, calendar, weather
tool_sections_reversed(out) ==
    (IF out.holiday_out # None THEN <<<<"**Holidays**", "\n">> \o out.holiday_out>> ELSE <<>>)
    \o (IF out.calendar_out # None
        THEN <<<<"**Schedule", " ", "/", " ", "Exams**", "\n">> \o pretty_or_raw(out.calendar_out)>>
        ELSE <<>>)
    \o (IF out.weather_out # None THEN <<<<"**Weather**", "\n">> \o out.weather_out>> ELSE <<>>)

\* the weather, calendar and holiday sections, each present when its output is
tool_sections(out) ==
    (IF out.weather_out # None THEN <<<<"**Weather**", "\n">> \o out.weather_out>> ELSE <<>>)
    \o (IF out.calendar_out # None
        THEN <<<<"**Schedule", " ", "/", " ", "Exams**", "\n">> \o pretty_or_raw(out.calendar_out)>>
        ELSE <<>>)
    \o (IF out.holiday_out # None THEN <<<<"**Holidays**", "\n">> \o out.holiday_out>> ELSE <<>>)

\* _llm_course_explanation: reply is the second completion's content, raised its failure
llm_course_explanation(reply, raised) ==
    IF raised THEN NO_EXPLANATION
    ELSE Let(strip(reply), LAMBDA text : IF text # <<>> THEN text ELSE NO_EXPLANATION)

\* build_final_answer_multi with the evidence put before the explanation
build_final_answer_multi_evidence_first(out, reply, raised) ==
    join_sections(tool_sections(out)
                  \o (IF out.rag_out # None
                      THEN << <<"**Evidence", " ", "(retrieved", " ", "chunks)**", "\n">>
                                  \o out.rag_out,
                              <<"**Course", " ", "explanation**", "\n">>
                                  \o llm_course_explanation(reply, raised) >>
                      ELSE <<>>))

\* build_final_answer_multi
build_final_answer_multi(out, reply, raised) ==
    join_sections(tool_sections(out)
                  \o (IF out.rag_out # None
                      THEN << <<"**Course", " ", "explanation**", "\n">>
                                  \o llm_course_explanation(reply, raised),
                              <<"**Evidence", " ", "(retrieved", " ", "chunks)**", "\n">>
                                  \o out.rag_out >>
                      ELSE <<>>))

\* policy_of with the search-only test made on the first tool used
policy_of_first_tool(unique_tools, out) ==
    IF Len(unique_tools) = 0 THEN "no_tools"
    ELSE IF unique_tools[1] = "search_course_materials" THEN "rag_only"
    ELSE IF out.rag_out # None THEN "multi_with_rag"
    ELSE "tools_only"

\* the branch of the if/elif chain of chat, by the distinct tool names and the outputs
policy_of(unique_tools, out) ==
    IF Len(unique_tools) = 0 THEN "no_tools"
    ELSE IF Len(unique_tools) = 1 /\ unique_tools[1] = "search_course_materials" THEN "rag_only"
    ELSE IF out.rag_out # None THEN "multi_with_rag"
    ELSE "tools_only"

\* the policy chat applies to a transcript
policy(messages) ==
    Let(unique_preserve_order(tool_names_of(messages)), LAMBDA unique_tools :
        policy_of(unique_tools, extract_tool_outputs(messages)))

\* branch_response without the social test of the search-only branch
branch_response_unchecked(branch, llm_response, out, reply, raised) ==
    CASE branch \in {"no_tools", "rag_only"} -> llm_response
      [] branch = "multi_with_rag" -> build_final_answer_multi(out, reply, raised)
      [] branch = "tools_only" ->
           Let(join_sections(tool_sections(out)), LAMBDA sections :
               IF sections # <<>> THEN sections ELSE llm_response)

\* the response of a branch of chat
branch_response(branch, llm_response, out, reply, raised) ==
    CASE branch = "no_tools" -> llm_response
      [] branch = "rag_only" ->
           IF ~is_social_or_useless(llm_response) THEN llm_response
           ELSE IF out.rag_out # None THEN out.rag_out ELSE llm_response
      [] branch = "multi_with_rag" -> build_final_answer_multi(out, reply, raised)
      [] branch = "tools_only" ->
           Let(join_sections(tool_sections(out)), LAMBDA sections :
               IF sections # <<>> THEN sections ELSE llm_response)

\* the response of chat before its final fallback
composed(messages, reply, raised) ==
    Let(extract_tool_outputs(messages), LAMBDA out :
    Let(policy_of(unique_preserve_order(tool_names_of(messages)), out), LAMBDA branch :
    Let(strip(messages[Len(messages)].content), LAMBDA llm_response :
        branch_response(branch, llm_response, out, reply, raised))))

\* the final fallback of chat: the last tool output that is not blank
final_fallback(messages, composed_text) ==
    Let(composed_text, LAMBDA response :
    Let({i \in DOMAIN messages : messages[i].type = "tool" /\ strip(messages[i].content) # <<>>},
        LAMBDA at :
            IF is_social_or_useless(response) /\ at # {}
            THEN strip(messages[CHOOSE i \in at : \A j \in at : j <= i].content)
            ELSE response))

(* ------------------------- inputs of the runs ------------------------- *)

U_full == <<"E", "x", "a", "m", " ", "w", "e", "a", "t", "h", "e", "r", " ", "t", "h", "a", "t", " ", "d", "a", "y">>
U_no_qualifier == <<"e", "x", "a", "m", " ", "w", "e", "a", "t", "h", "e", "r">>
Q_next_exam == <<"N", "e", "x", "t", " ", "e", "x", "a", "m">>
Q_pagerank == <<"p", "a", "g", "e", "r", "a", "n", "k">>
M_ok_padded == <<" ", "O", "K", " ">>
M_thanks == <<"T", "h", "a", "n", "k", "s">>
M_answer == <<"PageRank", " ", "ranks", " ", "pages.">>

\* the tool calls the model may request
W_haifa == [name |-> "get_weather", args |-> [location |-> L_Haifa]]
C_next_exam == [name |-> "check_calendar", args |-> [query |-> Q_next_exam]]
R_search == [name |-> "search_course_materials", args |-> [query |-> Q_pagerank]]
H_next == [name |-> "get_next_holiday", args |-> [country_code |-> S_IL]]
X_unknown == [name |-> "get_grades", args |-> [query |-> Q_pagerank]]

\* the clock before and after the stored exam (2026-02-01 and 2026-11-02, not at midnight)
ClockBefore == [day |-> ordinal(2026, 2, 1), midnight |-> FALSE]

\* the most tool calls the model requests in one run: of the orchestration runs
\* and of the composition runs
MaxToolCalls == 3

MaxComposeCalls == 2

\* the inputs of the orchestration runs
OrchestrationEnv ==
    [calls |-> {W_haifa, C_next_exam, X_unknown,
                [name |-> "get_weather", args |-> [location |-> L_Eilat, on_date |-> D_next]],
                [name |-> "get_weather", args |-> [location |-> <<" ", "H", "e", "r", "e", " ">>]],
                [name |-> "get_weather", args |-> [location |-> <<"x">>]],
                [name |-> "get_weather",
                 args |-> [location |-> <<"A", "t", "l", "a", "n", "t", "i", "s">>]]},
     texts |-> {M_answer},
     nets |-> {"up"},
     max_calls |-> MaxToolCalls]

\* the inputs of the composition runs
CompositionEnv ==
    [calls |-> {R_search, W_haifa, C_next_exam, H_next,
                [name |-> "get_weather",
                 args |-> [location |-> <<"A", "t", "l", "a", "n", "t", "i", "s">>]]},
     texts |-> {<<>>, M_ok_padded, M_thanks, M_answer,
                <<"It", " ", "is", " ", "25C", " ", "in", " ", "Atlantis.">>},
     nets |-> {"up"},
     max_calls |-> MaxComposeCalls]

(* ------------------- calendar_tool.py: the event store ------------------- *)

\* datetime.strptime(s, "%H:%M") succeeds
strptime_time(text) ==
    Let(text, LAMBDA s :
        Let(index_from(s, ":", 1), LAMBDA colon :
            /\ colon \in {2, 3}
            /\ Len(s) - colon \in {1, 2}
            /\ all_digits(SubSeq(s, 1, colon - 1))
            /\ all_digits(SubSeq(s, colon + 1, Len(s)))
            /\ to_int(SubSeq(s, 1, colon - 1)) <= 23
            /\ to_int(SubSeq(s, colon + 1, Len(s))) <= 59))

\* CalendarTool._is_valid_event, of an entry that has the four keys with texts
is_valid_event(e) ==
    /\ strip(e.title) # <<>>
    /\ strip(e.type) # <<>>
    /\ strptime_date(e.date).ok
    /\ strptime_time(e.time)

\* the backing file: absent, unparsable, or holding a list of entries
AbsentFile == [state |-> "absent", entries |-> <<>>]
ListFile(entries) == [state |-> "list", entries |-> entries]

\* CalendarTool._save_events of a list; the write is taken to succeed
save_events(evs) == ListFile(evs)

\* the outcome of a method of the store: the list, the file and the text returned
Outcome(evs, f, text) == [events |-> evs, file |-> f, returned |-> text]

\* add_event without the test for a stored copy
add_event_unchecked(evs, f, a) ==
    Let(Event(strip(a.title), strip(a.date), strip(a.time), lower(strip(a.type))), LAMBDA event :
        IF ~is_valid_event(event)
        THEN Outcome(evs, f, <<"Error:", " ", "Invalid", " ", "event.", " ", "Use", " ", "date", " ",
                               "YYYY-MM-DD", " ", "and", " ", "time", " ", "HH:MM.">>)
        ELSE Let(sort_events(Append(evs, event)), LAMBDA sorted :
                 Outcome(sorted, save_events(sorted),
                         <<"Added:", " ">> \o event.title \o <<" ", "on", " ">> \o event.date
                         \o <<" ", "at", " ">> \o event.time \o <<" ", "(">> \o event.type
                         \o <<")", ".">>)))

\* CalendarTool.add_event(title, date_str, time_str, event_type)
add_event(evs, f, a) ==
    Let(Event(strip(a.title), strip(a.date), strip(a.time), lower(strip(a.type))), LAMBDA event :
        IF ~is_valid_event(event)
        THEN Outcome(evs, f, <<"Error:", " ", "Invalid", " ", "event.", " ", "Use", " ", "date", " ",
                               "YYYY-MM-DD", " ", "and", " ", "time", " ", "HH:MM.">>)
        ELSE IF \E i \in DOMAIN evs :
                   /\ lower(evs[i].title) = lower(event.title)
                   /\ evs[i].date = event.date
                   /\ evs[i].time = event.time
                   /\ evs[i].type = event.type
        THEN Outcome(evs, f, <<"Event", " ", "already", " ", "exists.">>)
        ELSE Let(sort_events(Append(evs, event)), LAMBDA sorted :
                 Outcome(sorted, save_events(sorted),
                         <<"Added:", " ">> \o event.title \o <<" ", "on", " ">> \o event.date
                         \o <<" ", "at", " ">> \o event.time \o <<" ", "(">> \o event.type
                         \o <<")", ".">>)))

\* CalendarTool.remove_event(title)
remove_event(evs, f, title) ==
    Let(lower(strip(title)), LAMBDA t :
        IF t = <<>>
        THEN Outcome(evs, f, <<"Error:", " ", "Please", " ", "provide", " ", "a", " ", "title", " ",
                               "to", " ", "remove.">>)
        ELSE Let(SelectSeq(evs, LAMBDA e : lower(strip(e.title)) # t), LAMBDA kept :
                 IF Len(kept) = Len(evs)
                 THEN Outcome(kept, f, <<"No", " ", "event", " ", "found", " ", "with", " ", "title",
                                         " ", "'">> \o title \o <<"'", ".">>)
                 ELSE Outcome(kept, save_events(kept),
                              <<"Removed", " ">> \o int_text(Len(evs) - Len(kept))
                              \o <<" ", "event(s)", " ", "titled", " ", "'">> \o title
                              \o <<"'", ".">>)))

\* load_or_init that creates an empty store where it finds no usable file
load_or_init_empty(f) ==
    IF f.state = "list"
    THEN Outcome(SelectSeq(f.entries, is_valid_event), f, None)
    ELSE Outcome(<<>>, save_events(<<>>), None)

\* CalendarTool.__init__ with _load_or_init and _load_events: a missing or unparsable
\* file is written anew with the defaults; a list is filtered and the file is left
load_or_init(f) ==
    IF f.state = "list"
    THEN Outcome(SelectSeq(f.entries, is_valid_event), f, None)
    ELSE Outcome(default_events, save_events(default_events), None)

\* the events the calls of the store and the starting files are made of
E_quiz == Event(<<"Q", "u", "i", "z">>, D_exam, <<"0", "9", ":", "0", "0">>, S_exam)
E_lab == Event(<<"L", "a", "b">>, <<"2", "0", "2", "6", "-", "0", "2", "-", "0", "3">>,
               <<"0", "8", ":", "0", "0">>, <<"c", "l", "a", "s", "s">>)
E_no_such_day == Event(<<"Q", "u", "i", "z">>, <<"2", "0", "2", "6", "-", "0", "2", "-", "3", "0">>,
                       <<"0", "9", ":", "0", "0">>, S_exam)

\* the arguments of the add_event calls: two new events, the first also with padding
\* and capitals and in lowercase, a stored default event, and invalid ones
AddCalls ==
    {E_quiz, E_lab, E_no_such_day, default_events[3],
     Event(<<" ", "Q", "U", "I", "Z", " ">>, <<" ">> \o D_exam, <<"0", "9", ":", "0", "0", " ">>,
           <<" ", "E", "x", "a", "m">>),
     Event(<<" ">>, D_exam, <<"0", "9", ":", "0", "0">>, S_exam),
     Event(<<"Q", "u", "i", "z">>, D_exam, <<"2", "4", ":", "0", "0">>, S_exam)}

\* the arguments of the remove_event calls
RemoveCalls ==
    {<<" ", "q", "u", "i", "z">>, <<"L", "A", "B">>, <<" ">>, <<"N", "o", "n", "e">>,
     default_events[3].title}

\* the queries of the calendar
StoreQueries == {Q_next_exam, <<"u", "p", "c", "o", "m", "i", "n", "g">>}

\* the files a process may find when it starts: none, an unparsable one, the defaults
\* as written by an earlier run, a list with one event twice, a list with an invalid
\* entry
StartFiles ==
    {AbsentFile, [state |-> "corrupt", entries |-> <<>>], ListFile(default_events), ListFile(<<E_lab, E_quiz, E_quiz>>),
     ListFile(<<E_lab, E_no_such_day>>)}

\* the most lines the interactive loop reads and the most tool calls of one of its turns
MaxLines == 2

MaxLoopCalls == 1

\* the inputs of the turns of the interactive loop: a calendar call and a call of a
\* tool that does not exist, which raises
LoopEnv ==
    [calls |-> {C_next_exam, X_unknown},
     texts |-> {M_answer},
     nets |-> {"up"},
     max_calls |-> MaxLoopCalls]

\* the lines typed at the prompt: the three commands in several spellings, blank lines,
\* a question and a text that starts like a command
LoopLines ==
    {<<" ", "Q", "U", "I", "T", " ">>, <<"q", "u", "i", "t">>, <<"E", "x", "i", "t">>, <<"b", "y", "e", "\t">>,
     <<>>, <<" ", " ">>, <<" ">> \o U_full \o <<"\n">>, <<"q", "u", "i", "t", " ", "n", "o", "w">>}

\* the most tool calls of a run with repeated results of one category
MaxRepeatCalls == 3

\* the most tool calls of a run of SpecChain: enough for two batches that both chain
MaxChainCalls == 4

\* the longest run of whitespace put before and after a classified text
MaxPad == 1

\* the runs of whitespace of at most n characters
Paddings(n) == UNION {[1..k -> Whitespace] : k \in 0..n}

\* the texts given to _is_social_or_useless: the empty text, the phrases of its two
\* sets, other spellings of them and texts of neither set, between runs of whitespace
ClassifierTexts ==
    {l \o c \o r : l \in Paddings(MaxPad), r \in Paddings(MaxPad),
                   c \in {<<>>} \cup social \cup filler
    \cup {<<"O", "K">>,
          <<"O", "k">>,
          <<"Y", "E", "S">>,
          <<"Y", "e", "s">>,
          <<"S", "u", "r", "e">>,
          <<"K">>,
          <<"N", "O">>,
          <<"T", "h", "a", "n", "k", "s">>,
          <<"T", "H", "A", "N", "K", " ", "Y", "O", "U">>,
          <<"h", "e", "l", "l", "o">>,
          <<"y", "e", "s", "s">>,
          <<"s", "u", "r", "e", "!">>,
          <<"k", " ", "k">>,
          <<"n", "o", "p", "e">>,
          <<"o", "k", "a", "y", " ", "t", "h", "e", "n">>}}

(* ------------------------------- state ------------------------------- *)

VARIABLES
    messages,      \* state["messages"], the transcript of the run
    pc,            \* "agent", "tools", "end" (the graph reached END), "raised", "done"
    invoked,       \* the capability calls made so far, in order
    composed_response,  \* chat's response before its final fallback
    response,      \* what chat returns
    course_reply,  \* the reply of the second completion of chat, None when not asked
    events,        \* CalendarTool.events
    clock,         \* datetime.now()
    env,           \* the inputs the run draws from
    file,          \* the backing file of CalendarTool (json_path)
    called,        \* the last call on the calendar: its method, argument and return value
    lines_read,    \* the number of lines the interactive loop has read
    printed,       \* what the interactive loop has printed: "assistant", "error", "goodbye"
    text_arg,      \* the argument of a call of _is_social_or_useless
    verdict        \* <<what the call returned>>, <<>> before it returns

vars ==
    <<messages, pc, invoked, composed_response, response, course_reply, events, clock, env,
      file, called, lines_read, printed, text_arg, verdict>>

\* a call on the calendar as it is recorded, its arguments by their names, and the
\* record of no call
Call(method, argument, returned) == [method |-> method, arg |-> argument, returned |-> returned]
NoCall == Call("none", [query |-> None], None)

\* outside its own specification a part of the program is at rest: no text is being
\* classified, the store is as constructed without a file and was not called, and no
\* line was read
AtRest(classifier, store, cli) ==
    /\ classifier => (text_arg = None /\ verdict = <<>>)
    /\ store => (file = save_events(default_events) /\ called = NoCall)
    /\ cli => (lines_read = 0 /\ printed = <<>>)


\* chat's initial state, for a user text, a clock and a set of inputs
Start(users, clocks, e) ==
    /\ \E u \in users : messages = <<HumanMessage(u)>>
    /\ pc = "agent"
    /\ invoked = <<>>
    /\ composed_response = None
    /\ response = None
    /\ course_reply = None
    /\ events = default_events
    /\ clock \in clocks
    /\ env = e
    /\ AtRest(TRUE, TRUE, TRUE)

Init == Start({U_full, U_no_qualifier}, {ClockBefore}, OrchestrationEnv)

InitCompose == Start({U_full}, {ClockBefore}, CompositionEnv)

RECURSIVE requested(_)
\* the tool calls requested so far in the run
requested(msgs) ==
    IF msgs = <<>> THEN 0 ELSE Len(Head(msgs).tool_calls) + requested(Tail(msgs))

\* the batches of at most n calls the model may request
Batches(n, calls) == UNION {[1..k -> calls] : k \in 0..n}

\* the ids the completion gives the calls of a batch: unique in the run
with_ids(batch, base) ==
    [i \in 1..Len(batch) |->
        ToolCall(batch[i].name, batch[i].args, "call_" \o ToString(base + i))]

\* agent_node and the conditional edge after it: one AIMessage is appended, then
\* should_continue routes.  A message that requests calls has empty content.
AgentStep ==
    /\ pc = "agent"
    /\ \E used \in {requested(messages)} :
       \E batch \in Batches(env.max_calls - used, env.calls) :
       \E text \in (IF batch = <<>> THEN env.texts ELSE {<<>>}) :
       \E after \in {add_messages(messages, <<AIMessage(text, with_ids(batch, used))>>)} :
          /\ messages' = after
          /\ pc' = should_continue(after)
    /\ UNCHANGED <<invoked, composed_response, response, course_reply, events, clock, env>>
    /\ UNCHANGED <<file, called, lines_read, printed, text_arg, verdict>>

\* tool_node and the edge back to the agent; a raised error leaves the graph
ToolsStep ==
    /\ pc = "tools"
    /\ \E net \in env.nets :
       \E st \in {tool_node(messages, net, events, clock)} :
          /\ invoked' = invoked \o st.invoked
          /\ messages' = (IF st.raised THEN messages ELSE add_messages(messages, st.outputs))
          /\ pc' = (IF st.raised THEN "raised" ELSE "agent")
    /\ UNCHANGED <<composed_response, response, course_reply, events, clock, env>>
    /\ UNCHANGED <<file, called, lines_read, printed, text_arg, verdict>>

\* chat after app.invoke returned: the answer is composed
Compose ==
    /\ pc = "end"
    /\ \E second \in {policy(messages) = "multi_with_rag"} :
       \E raised \in (IF second THEN BOOLEAN ELSE {FALSE}) :
       \E reply \in (IF second /\ ~raised THEN env.texts ELSE {None}) :
       \E draft \in {composed(messages, reply, raised)} :
          /\ composed_response' = draft
          /\ response' = final_fallback(messages, draft)
          /\ course_reply' = (IF second THEN llm_course_explanation(reply, raised) ELSE None)
    /\ pc' = "done"
    /\ UNCHANGED <<messages, invoked, events, clock, env>>
    /\ UNCHANGED <<file, called, lines_read, printed, text_arg, verdict>>

Next == AgentStep \/ ToolsStep \/ Compose

Spec == Init /\ [][Next]_vars

SpecCompose == InitCompose /\ [][Next]_vars

\* runs whose calls give two different results in each category: the weather asked
\* for and chained, two calendar queries, two of the holiday tools and two searches
InitRepeat ==
    Start({U_full}, {ClockBefore},
          [calls |-> {W_haifa, C_next_exam, H_next, R_search,
                      [name |-> "check_calendar", args |-> [query |-> S_deadline]],
                      [name |-> "is_public_holiday", args |-> [date_str |-> D_exam]],
                      [name |-> "search_course_materials", args |-> [query |-> S_exam]]},
           texts |-> {M_answer},
           nets |-> {"up"},
           max_calls |-> MaxRepeatCalls])

SpecRepeat == InitRepeat /\ [][Next]_vars

\* runs of up to four calls in which the calendar call and the date-less weather
\* call come in one batch or in different batches, several times over
InitChain ==
    Start({U_full}, {ClockBefore},
          [calls |-> {W_haifa, C_next_exam, R_search},
           texts |-> {M_answer},
           nets |-> {"up"},
           max_calls |-> MaxChainCalls])

SpecChain == InitChain /\ [][Next]_vars

(* ---------------- the classifier of the model's text, alone ---------------- *)

\* a call of _is_social_or_useless on one of the texts; no run of chat is under way
InitClassify ==
    /\ text_arg \in ClassifierTexts
    /\ verdict = <<>>
    /\ messages = <<>>
    /\ pc = "idle"
    /\ invoked = <<>>
    /\ composed_response = None
    /\ response = None
    /\ course_reply = None
    /\ events = default_events
    /\ clock = ClockBefore
    /\ env = CompositionEnv
    /\ AtRest(FALSE, TRUE, TRUE)

\* the call returns
Classify ==
    /\ pc = "idle"
    /\ verdict = <<>>
    /\ verdict' = <<is_social_or_useless(text_arg)>>
    /\ UNCHANGED <<text_arg, messages, pc, invoked, composed_response, response, course_reply,
                   events, clock, env, file, called, lines_read, printed>>

SpecClassify == InitClassify /\ [][Classify]_vars

(* ------------------------- the event store, alone ------------------------- *)

\* the store after CalendarTool() was constructed over one of the starting files
InitStore ==
    /\ \E f \in StartFiles : \E made \in {load_or_init(f)} :
          events = made.events /\ file = made.file
    /\ called = NoCall
    /\ messages = <<>>
    /\ pc = "idle"
    /\ invoked = <<>>
    /\ composed_response = None
    /\ response = None
    /\ course_reply = None
    /\ clock = ClockBefore
    /\ env = CompositionEnv
    /\ AtRest(TRUE, FALSE, TRUE)

\* what a call on the store leaves alone
StoreFrame ==
    UNCHANGED <<messages, pc, invoked, composed_response, response, course_reply, clock, env,
                lines_read, printed, text_arg, verdict>>

\* a call of add_event with the arguments a
AddEvent(a) ==
    /\ \E done \in {add_event(events, file, a)} :
          /\ events' = done.events
          /\ file' = done.file
          /\ called' = Call("add_event", a, done.returned)
    /\ StoreFrame

\* a call of remove_event with a title
RemoveEvent(title) ==
    /\ \E done \in {remove_event(events, file, title)} :
          /\ events' = done.events
          /\ file' = done.file
          /\ called' = Call("remove_event", [title |-> title], done.returned)
    /\ StoreFrame

\* the tool check_calendar answers a query from the list in memory
Query(query) ==
    /\ called' = Call("check_calendar", [query |-> query], check_calendar(query, events, clock))
    /\ UNCHANGED <<events, file>>
    /\ StoreFrame

\* the file is deleted from outside the process
DeleteFile ==
    /\ file.state # "absent"
    /\ file' = AbsentFile
    /\ called' = NoCall
    /\ UNCHANGED events
    /\ StoreFrame

\* the process is started again: CalendarTool() is constructed over the file as it is
Restart ==
    /\ \E made \in {load_or_init(file)} :
          events' = made.events /\ file' = made.file
    /\ called' = NoCall
    /\ StoreFrame

NextStore ==
    \/ \E a \in AddCalls : AddEvent(a)
    \/ \E title \in RemoveCalls : RemoveEvent(title)
    \/ \E query \in StoreQueries : Query(query)
    \/ DeleteFile
    \/ Restart

SpecStore == InitStore /\ [][NextStore]_vars

(* --------------------- the interactive loop of __main__ --------------------- *)

\* the loop waits at its first prompt
InitLoop ==
    /\ pc = "prompt"
    /\ lines_read = 0
    /\ printed = <<>>
    /\ messages = <<>>
    /\ invoked = <<>>
    /\ composed_response = None
    /\ response = None
    /\ course_reply = None
    /\ events = default_events
    /\ clock = ClockBefore
    /\ env = LoopEnv
    /\ AtRest(TRUE, TRUE, FALSE)

\* what the steps of the loop itself leave alone
LoopFrame == UNCHANGED <<events, clock, env, file, called, text_arg, verdict>>

\* input() returns a line: a blank line is skipped, a command ends the loop, any other
\* text is given to chat, which starts a run on a transcript of its own
ReadLine(line) ==
    /\ pc = "prompt"
    /\ lines_read < MaxLines
    /\ lines_read' = lines_read + 1
    /\ \E user_input \in {strip(line)} :
          IF user_input = <<>>
          THEN UNCHANGED <<pc, printed, messages, invoked, composed_response, response,
                           course_reply>>
          ELSE IF lower(user_input) \in {<<"q", "u", "i", "t">>, <<"e", "x", "i", "t">>,
                                          <<"b", "y", "e">>}
          THEN /\ pc' = "exited"
               /\ printed' = Append(printed, "goodbye")
               /\ UNCHANGED <<messages, invoked, composed_response, response, course_reply>>
          ELSE /\ pc' = "agent"
               /\ messages' = <<HumanMessage(user_input)>>
               /\ invoked' = <<>>
               /\ composed_response' = None
               /\ response' = None
               /\ course_reply' = None
               /\ UNCHANGED printed
    /\ LoopFrame

\* chat printed its answer and returned: the loop prompts again
TurnAnswered ==
    /\ pc = "done"
    /\ pc' = "prompt"
    /\ printed' = Append(printed, "assistant")
    /\ UNCHANGED <<lines_read, messages, invoked, composed_response, response, course_reply>>
    /\ LoopFrame

\* the handler of Exception after a raise; it stands in the place of ErrorCaught and
\* ends the loop
ErrorEndsLoop ==
    /\ pc = "raised"
    /\ pc' = "exited"
    /\ printed' = Append(printed, "error")
    /\ UNCHANGED <<lines_read, messages, invoked, composed_response, response, course_reply>>
    /\ LoopFrame

\* except Exception: the error of the turn is printed and the loop prompts again
ErrorCaught ==
    /\ pc = "raised"
    /\ pc' = "prompt"
    /\ printed' = Append(printed, "error")
    /\ UNCHANGED <<lines_read, messages, invoked, composed_response, response, course_reply>>
    /\ LoopFrame

\* input() raises EOFError on a closed input: an Exception, printed like any other
InputRaises ==
    /\ pc = "prompt"
    /\ lines_read < MaxLines
    /\ lines_read' = lines_read + 1
    /\ printed' = Append(printed, "error")
    /\ UNCHANGED <<pc, messages, invoked, composed_response, response, course_reply>>
    /\ LoopFrame

\* except KeyboardInterrupt, at the prompt or within a turn: the loop ends
Interrupted ==
    /\ pc \in {"prompt", "agent", "tools", "end"}
    /\ pc' = "exited"
    /\ printed' = Append(printed, "goodbye")
    /\ UNCHANGED <<lines_read, messages, invoked, composed_response, response, course_reply>>
    /\ LoopFrame

NextLoop ==
    \/ \E line \in LoopLines : ReadLine(line)
    \/ AgentStep
    \/ ToolsStep
    \/ Compose
    \/ TurnAnswered
    \/ ErrorCaught
    \/ InputRaises
    \/ Interrupted

SpecLoop == InitLoop /\ [][NextLoop]_vars

(* ------------------------ what a tools step did ----------------------- *)

\* the batch a tools step works on: the calls of the last message
step_batch == messages[Len(messages)].tool_calls

\* the messages a step appended and the capability calls it made
step_results == SubSeq(messages', Len(messages) + 1, Len(messages'))

step_invoked == SubSeq(invoked', Len(invoked) + 1, Len(invoked'))

\* the results of a step that answer requested calls, and the chained ones
plain_results == SelectSeq(step_results, LAMBDA m : m.tool_call_id # AUTO_CHAINED_ID)

chained_results == SelectSeq(step_results, LAMBDA m : m.tool_call_id = AUTO_CHAINED_ID)

\* a weather call whose trimmed location is a placeholder or shorter than 2 characters
placeholder_call(call) ==
    /\ call.name = "get_weather"
    /\ LET loc == strip(arg(call.args, "location", <<>>))
       IN  lower(loc) \in bad_locs \/ Len(loc) < 2

\* a weather call without on_date whose location the lookup resolves
resolved_undated_call(call) ==
    /\ call.name = "get_weather"
    /\ arg(call.args, "on_date", None) = None
    /\ "location" \in DOMAIN call.args
    /\ call.args.location \in Gazetteer

\* a call whose invocation fails: an unknown tool or a missing required argument
failing_call(call) ==
    \/ call.name \notin ToolNames
    \/ ~(required_args(call.name) \subseteq DOMAIN call.args)

\* the transcript ends with an AssistantMessage that requests no tool call
final_message_reached ==
    /\ messages[Len(messages)].type = "ai"
    /\ messages[Len(messages)].tool_calls = <<>>

(* ------------------------------- claims ------------------------------ *)

\* C1: the run has ended exactly when the AssistantMessage just appended requests
\* zero tool calls; nothing else (an error, a chain, a count) ends a run.
C1_RunEndsExactlyOnNoToolCalls ==
    (pc \notin {"agent", "tools"}) <=> final_message_reached

\* C2: a tools step produces exactly one ToolResult per requested call, in bijection
\* by id; the only other result is the chained one, under the reserved id.
C2_ResultsBijectiveWithCalls ==
    [][pc = "tools" =>
          /\ Len(plain_results) = Len(step_batch)
          /\ \A i \in DOMAIN step_batch :
                Cardinality({k \in DOMAIN plain_results :
                                plain_results[k].tool_call_id = step_batch[i].id}) = 1
          /\ Len(chained_results) <= 1]_vars

\* C3: in a tools step that returns, the chained weather call is made if and only if
\* (a) the user text asks for the weather on the exam day, (b) a calendar result of
\* the batch yielded an exam date, (c) a weather call of the batch had no on_date and
\* (d) the location of that same call was resolved.
C3_ChainIffFourConditions ==
    [][(pc = "tools" /\ pc' = "agent") =>
          ((chained_results # <<>>) <=>
              /\ user_requested_weather_on_exam_day(last_user_text(messages))
              /\ \E k \in DOMAIN plain_results :
                    /\ plain_results[k].name = "check_calendar"
                    /\ extract_date_from_calendar_json(plain_results[k].content) # None
              /\ \E i \in DOMAIN step_batch : resolved_undated_call(step_batch[i]))]_vars

\* C4: no failure of a requested call escapes a tools step: the step returns to the
\* agent with a result for every call, an error text for each call that fails.
C4_NoToolFailureEscapes ==
    [][pc = "tools" =>
          /\ pc' = "agent"
          /\ \A i \in DOMAIN step_batch :
                \E k \in DOMAIN plain_results :
                    /\ plain_results[k].tool_call_id = step_batch[i].id
                    /\ failing_call(step_batch[i]) => Head(plain_results[k].content) = "Error:"]_vars

\* C5: a weather call with a placeholder or too short location is not passed to the
\* capability and is answered with the fixed 'No valid city provided' text; every
\* other weather call of the batch is passed to the capability with its arguments.
C5_PlaceholderLocationGuard ==
    [][pc = "tools" =>
          \A i \in DOMAIN step_batch :
             step_batch[i].name = "get_weather" =>
                IF placeholder_call(step_batch[i])
                THEN /\ \A k \in DOMAIN step_invoked : step_invoked[k].args # step_batch[i].args
                     /\ \E k \in DOMAIN plain_results :
                           /\ plain_results[k].tool_call_id = step_batch[i].id
                           /\ plain_results[k].content = NO_CITY
                ELSE \E k \in DOMAIN step_invoked :
                           /\ step_invoked[k].name = "get_weather"
                           /\ step_invoked[k].args = step_batch[i].args]_vars

\* C6: the transcript only grows by appending: an agent step appends exactly one
\* AssistantMessage, a tools step appends only ToolResults, and no step removes,
\* reorders or changes an earlier message.
C6_TranscriptAppendOnly ==
    [][/\ Len(messages') >= Len(messages)
       /\ SubSeq(messages', 1, Len(messages)) = messages
       /\ pc = "agent" => (Len(step_results) = 1 /\ step_results[1].type = "ai")
       /\ pc = "tools" => \A k \in DOMAIN step_results : step_results[k].type = "tool"
       /\ pc \notin {"agent", "tools"} => messages' = messages]_vars

\* C6 witness: a finished run whose transcript grew by two AssistantMessages and
\* at least two ToolResults
C6_Witness ==
    /\ pc = "done"
    /\ Cardinality({i \in DOMAIN messages : messages[i].type = "ai"}) >= 2
    /\ Cardinality({i \in DOMAIN messages : messages[i].type = "tool"}) >= 2

\* C7: within one batch the calls are invoked in the order the model listed them,
\* their ToolResults are appended in that same order, a chained result comes after
\* all of them, and the step hands over to the agent only with the whole batch appended.
C7_BatchInOrder ==
    [][pc = "tools" =>
          /\ step_results = plain_results \o chained_results
          /\ Len(plain_results) <= Len(step_batch)
          /\ \A k \in DOMAIN plain_results :
                /\ plain_results[k].tool_call_id = step_batch[k].id
                /\ plain_results[k].name = step_batch[k].name
          /\ Len(chained_results) <= Len(step_invoked)
          /\ \E f \in [1..(Len(step_invoked) - Len(chained_results)) -> DOMAIN step_batch] :
                /\ \A a, b \in DOMAIN f : a < b => f[a] < f[b]
                /\ \A a \in DOMAIN f :
                      /\ step_invoked[a].name = step_batch[f[a]].name
                      /\ step_invoked[a].args = step_batch[f[a]].args
          /\ pc' = "agent" => Len(plain_results) = Len(step_batch)]_vars

\* C7 witness: a batch of two calls answered in order, then the chained result, then
\* the next AssistantMessage
C7_Witness ==
    \E i \in DOMAIN messages :
        /\ i + 4 <= Len(messages)
        /\ Len(messages[i].tool_calls) = 2
        /\ messages[i + 1].tool_call_id = messages[i].tool_calls[1].id
        /\ messages[i + 2].tool_call_id = messages[i].tool_calls[2].id
        /\ messages[i + 3].tool_call_id = AUTO_CHAINED_ID
        /\ messages[i + 4].type = "ai"
        /\ Len(invoked) = 3

\* C8: when the chain fires, exactly one more weather call is made, with on_date the
\* exam date of this batch's calendar result and location the location of the weather
\* call of this batch that had no on_date.
C8_ChainedCallArguments ==
    [][(pc = "tools" /\ chained_results # <<>>) =>
          /\ Len(chained_results) = 1
          /\ Len(step_invoked)
                = 1 + Cardinality({i \in DOMAIN step_batch : ~placeholder_call(step_batch[i])})
          /\ LET extra == step_invoked[Len(step_invoked)]
             IN  /\ extra.name = "get_weather"
                 /\ \E k \in DOMAIN plain_results :
                       /\ plain_results[k].name = "check_calendar"
                       /\ extract_date_from_calendar_json(plain_results[k].content)
                             = extra.args.on_date
                 /\ \E i \in DOMAIN step_batch :
                       /\ step_batch[i].name = "get_weather"
                       /\ arg(step_batch[i].args, "on_date", None) = None
                       /\ strip(arg(step_batch[i].args, "location", <<>>))
                             = extra.args.location]_vars

(* --------------------- claims on the composed answer ------------------ *)

\* the ToolResults of the transcript whose content is not blank
nonblank_results ==
    {i \in DOMAIN messages : messages[i].type = "tool" /\ strip(messages[i].content) # <<>>}

\* the content, trimmed, of the most recent ToolResult that is not blank
last_nonblank_result ==
    strip(messages[CHOOSE i \in nonblank_results : \A j \in nonblank_results : j <= i].content)

\* the tool names of the ToolResults of the transcript
used_tool_names == {messages[i].name : i \in {j \in DOMAIN messages : messages[j].type = "tool"}}

\* the model's final text, trimmed as chat trims it
final_text == strip(messages[Len(messages)].content)

\* a text that is blank or, trimmed and in lower case, one of the acknowledgement phrases
pleasantry(text) ==
    LET t == lower(strip(text))
    IN  t = <<>> \/ t \in social \/ (Len(t) <= 4 /\ t \in filler)

\* C9: with a ToolResult that is not blank in the final transcript, the answer of chat
\* is never a pleasantry: a composed text classified social/useless is replaced by the
\* most recent such ToolResult; without such a ToolResult the composed text is returned.
C9_AnswerNeverSocialWithToolResults ==
    pc = "done" =>
        IF nonblank_results # {}
        THEN /\ ~pleasantry(response)
             /\ response = (IF is_social_or_useless(composed_response)
                            THEN last_nonblank_result
                            ELSE composed_response)
        ELSE response = composed_response

\* C9 witness: the model closed with a pleasantry after a tool answered, and chat
\* returned the tool's text
C9_Witness ==
    /\ pc = "done"
    /\ nonblank_results # {}
    /\ pleasantry(final_text)
    /\ response = last_nonblank_result

\* C10: when the only tool used is search_course_materials, the composed answer is the
\* model's final text if that is not social/useless, and the search result text
\* otherwise (both trimmed, as chat reads them).
C10_SearchOnlyPrefersModelText ==
    (pc = "done" /\ used_tool_names = {"search_course_materials"}) =>
        composed_response = (IF ~is_social_or_useless(final_text)
                             THEN final_text
                             ELSE last_output(messages, {"search_course_materials"}))

\* C10 witness: only the search ran, the model answered " OK " and the composed answer
\* is the search result
C10_Witness ==
    /\ pc = "done"
    /\ used_tool_names = {"search_course_materials"}
    /\ messages[Len(messages)].content = M_ok_padded
    /\ composed_response = last_output(messages, {"search_course_materials"})
    /\ composed_response # None

\* the latest result, trimmed, of the tools of one category; None without one
latest_result(names) ==
    LET at == {i \in DOMAIN messages : messages[i].type = "tool" /\ messages[i].name \in names}
    IN  IF at = {} THEN None
        ELSE strip(messages[CHOOSE i \in at : \A j \in at : j <= i].content)

\* the two-line summary of a 'next exam' payload, or the calendar text as it is
exam_summary_or_raw(text) ==
    LET parsed == json_loads(text)
    IN  IF parsed.ok /\ has_key(parsed.obj, "found") /\ get(parsed.obj, "found") = json_bool(TRUE)
           /\ has_key(parsed.obj, "type") /\ get(parsed.obj, "type") = json_str(S_exam)
        THEN <<"Next", " ", "exam:", " ">> \o get(parsed.obj, "title").str
             \o <<"\n", "Date:", " ">> \o get(parsed.obj, "date").str
             \o <<" ">> \o get(parsed.obj, "time").str
        ELSE text

\* the weather, calendar and holiday sections of the results that are present, in
\* that order, each followed by a blank line
deterministic_sections ==
    LET w == latest_result({"get_weather"})
        c == latest_result({"check_calendar"})
        h == latest_result(HolidayNames)
    IN  (IF w # None THEN <<"**Weather**", "\n">> \o w \o <<"\n", "\n">> ELSE <<>>)
        \o (IF c # None
            THEN <<"**Schedule", " ", "/", " ", "Exams**", "\n">> \o exam_summary_or_raw(c)
                 \o <<"\n", "\n">>
            ELSE <<>>)
        \o (IF h # None THEN <<"**Holidays**", "\n">> \o h \o <<"\n", "\n">> ELSE <<>>)

C12_ToolsOnlyAnswer ==
    (/\ pc = "done"
     /\ used_tool_names # {}
     /\ "search_course_materials" \notin used_tool_names) =>
        /\ composed_response \o <<"\n", "\n">> = deterministic_sections
        /\ course_reply = None
        /\ final_text # <<>> => ~contains(final_text, composed_response)

\* C12 witness: the holiday tool was called before the weather tool and the answer
\* starts with the weather section
C12_Witness ==
    /\ pc = "done"
    /\ \E i, j \in DOMAIN messages :
          /\ i < j
          /\ messages[i].type = "tool" /\ messages[i].name = "get_next_holiday"
          /\ messages[j].type = "tool" /\ messages[j].name = "get_weather"
    /\ final_text = M_answer
    /\ Head(composed_response) = "**Weather**"
    /\ contains(<<"**Holidays**">>, composed_response)

(* ------------------------ claims on the classifier ------------------------ *)

\* C13: _is_social_or_useless(text) is true exactly when text is empty after trimming
\* (whitespace-only text included), or its trimmed lowercase form is one of the
\* acknowledgement phrases, or its trimmed form has at most 4 characters and is, in
\* lowercase, one of the filler tokens.
C13_ClassifierExact ==
    verdict # <<>> =>
        verdict[1] = (\/ strip(text_arg) = <<>>
                      \/ lower(strip(text_arg)) \in social
                      \/ Len(strip(text_arg)) <= 4 /\ lower(strip(text_arg)) \in filler)

(* -------------------- claims on the choice of the policy -------------------- *)

\* the policy as a function of the set of tool names used and of whether the search
\* produced output
selected_policy(names, searched) ==
    IF names = {} THEN "no_tools"
    ELSE IF names = {"search_course_materials"} THEN "rag_only"
    ELSE IF searched THEN "multi_with_rag"
    ELSE "tools_only"

\* the outcomes of the second completion that composing the transcript may meet: none
\* is made outside the multi-tool policy with search; there it raises or replies
completions ==
    IF policy(messages) = "multi_with_rag"
    THEN {[raised |-> TRUE, reply |-> None]} \cup {[raised |-> FALSE, reply |-> t] : t \in env.texts}
    ELSE {[raised |-> FALSE, reply |-> None]}

\* the transcript is final and the policy it selects is the function of the features
policy_by_features ==
    pc \in {"end", "done"} =>
        policy(messages) =
            selected_policy(used_tool_names, latest_result({"search_course_materials"}) # None)

\* C14 as stated: the policy is a function of the set of tool names used, of whether
\* the search produced output and of the classification of the model's text, and
\* composing the same final transcript twice yields the same answer.
C14_PolicyAndAnswerDeterministic ==
    /\ policy_by_features
    /\ pc = "end" =>
          \A o1, o2 \in completions :
             composed(messages, o1.reply, o1.raised) = composed(messages, o2.reply, o2.raised)

\* C14 amended: the policy is that function of the features; the answers of composing
\* the same final transcript are those of the outcomes of the second completion, and
\* two of them are the same whenever the course explanation is the same, so always
\* outside the multi-tool policy with search.
C14_PolicyByFeaturesAnswerByExplanation ==
    /\ policy_by_features
    /\ pc = "end" =>
          /\ \A o1, o2 \in completions :
                llm_course_explanation(o1.reply, o1.raised)
                    = llm_course_explanation(o2.reply, o2.raised)
                => composed(messages, o1.reply, o1.raised)
                       = composed(messages, o2.reply, o2.raised)
          /\ policy(messages) # "multi_with_rag" => Cardinality(completions) = 1
    /\ pc = "done" =>
          \E o \in completions :
             /\ composed_response = composed(messages, o.reply, o.raised)
             /\ policy(messages) = "multi_with_rag"
                   => course_reply = llm_course_explanation(o.reply, o.raised)

\* C14 witness: the search and the calendar ran and the second completion raised, so
\* the answer holds the fallback explanation
C14_Witness ==
    /\ pc = "done"
    /\ used_tool_names = {"search_course_materials", "check_calendar"}
    /\ policy(messages) = "multi_with_rag"
    /\ course_reply = NO_EXPLANATION
    /\ contains(NO_EXPLANATION, composed_response)

(* ------------------------ claims on the event store ------------------------ *)

\* the positions of the store that hold the same title, date, time and type as an
\* earlier position
repeated_events ==
    {j \in DOMAIN events : \E i \in 1..(j - 1) : events[i] = events[j]}

\* C15: after any add_event call, whatever the store held before and whatever calls
\* preceded it, the store holds no two events with the same title, date, time and type.
C15_NoDuplicateAfterAdd ==
    called.method = "add_event" => repeated_events = {}

\* the event an add_event call with the arguments a is about: texts trimmed, type in
\* lowercase
event_of(a) == Event(strip(a.title), strip(a.date), strip(a.time), lower(strip(a.type)))

\* the number of stored events equal to e
copies(evs, e) == Cardinality({i \in DOMAIN evs : evs[i] = e})

\* the texts add_event returns for a stored event and for a copy
added_text(e) ==
    <<"Added:", " ">> \o e.title \o <<" ", "on", " ">> \o e.date \o <<" ", "at", " ">> \o e.time
    \o <<" ", "(">> \o e.type \o <<")", ".">>

already_exists == <<"Event", " ", "already", " ", "exists.">>

\* C16: calling add_event twice with the same valid title, date, time and type stores
\* one copy: the first call, made when no event of that title (up to case), date, time
\* and type is stored, returns the 'Added' text; the second returns 'Event already
\* exists.' and leaves the list and the file as they are.
C16_AddTwiceStoresOnce ==
    [][\A a \in AddCalls :
          (AddEvent(a) /\ is_valid_event(event_of(a))) =>
             /\ (\A i \in DOMAIN events :
                    Event(lower(events[i].title), events[i].date, events[i].time, events[i].type)
                        # Event(lower(event_of(a).title), event_of(a).date, event_of(a).time,
                                event_of(a).type))
                  => /\ called'.returned = added_text(event_of(a))
                     /\ copies(events', event_of(a)) = 1
             /\ (/\ called.method = "add_event"
                 /\ called.arg = a
                 /\ called.returned = added_text(event_of(a)))
                  => /\ called'.returned = already_exists
                     /\ called'.returned # called.returned
                     /\ events' = events
                     /\ file' = file
                     /\ copies(events', event_of(a)) = 1]_vars

\* C16 witness: the second of two add_event calls for the quiz has returned, the quiz
\* is stored once and the file holds the list
C16_Witness ==
    /\ called.method = "add_event"
    /\ called.arg = E_quiz
    /\ called.returned = already_exists
    /\ copies(events, E_quiz) = 1
    /\ file = ListFile(events)
    /\ Len(events) = Len(default_events) + 1

\* the step is a call of add_event or of remove_event
store_call_made ==
    \/ \E a \in AddCalls : AddEvent(a)
    \/ \E title \in RemoveCalls : RemoveEvent(title)

\* C17: after every add_event or remove_event call that changes the list in memory the
\* file holds exactly that list, and a call that changes nothing leaves the list and
\* the file as they are, so that after any sequence of such calls on a store whose file
\* nobody deleted the file and the list agree.
C17_FileMirrorsList ==
    [][(store_call_made /\ file.state # "absent") =>
          /\ events' # events => file' = ListFile(events')
          /\ events' = events => file' = file
          /\ file' = ListFile(events')]_vars

\* C18 as stated: when the file of the store is deleted and a calendar query is then
\* made, the store (file and list) is created anew with the 4 default events before
\* the query is answered, also when the file is deleted after the tool was constructed
\* and after events were added or removed.
C18_QueryRecreatesDeletedStore ==
    [][\A query \in StoreQueries :
          (Query(query) /\ file.state = "absent") =>
             /\ events' = default_events
             /\ file' = ListFile(default_events)
             /\ called'.returned = check_calendar(query, default_events, clock)]_vars

\* C18 amended: a process that starts without the file creates the store (file and
\* list) with the 4 default events before any query is answered; a query made after the
\* file was deleted under a constructed tool is answered from the list in memory, and
\* leaves that list as it is and the file absent.
C18_StoreCreatedAtStartOnly ==
    [][/\ (Restart /\ file.state = "absent") =>
             /\ events' = default_events
             /\ Len(events') = 4
             /\ file' = ListFile(default_events)
       /\ \A query \in StoreQueries :
             (Query(query) /\ file.state = "absent") =>
                /\ events' = events
                /\ file'.state = "absent"
                /\ called'.returned = check_calendar(query, events, clock)]_vars

\* C18 witness: the quiz was added, the file was deleted, and a query was answered
\* with the quiz from the list in memory while the file is still absent
C18_Witness ==
    /\ called.method = "check_calendar"
    /\ file.state = "absent"
    /\ copies(events, E_quiz) = 1
    /\ Len(events) = 5
    /\ contains(E_quiz.title, called.returned)

(* ---------------------- claims on the interactive loop ---------------------- *)

\* C19: in the interactive loop a line equal, in lowercase and trimmed, to quit, exit
\* or bye ends the loop, after which the process takes no step; an error raised within
\* a turn is caught and printed and the loop prompts again, ready to take a step; and
\* a turn that follows starts from a transcript of its own and the unchanged store.
C19_LoopEndsOnCommandOnly ==
    /\ [](pc = "raised" => ENABLED ErrorCaught)
    /\ [][ /\ \A line \in LoopLines :
               ReadLine(line) =>
                  /\ (pc' = "exited")
                        = (lower(strip(line)) \in {<<"q", "u", "i", "t">>, <<"e", "x", "i", "t">>,
                                                   <<"b", "y", "e">>})
                  /\ pc' = "agent" =>
                        /\ messages' = <<HumanMessage(strip(line))>>
                        /\ invoked' = <<>>
                        /\ events' = default_events
                        /\ response' = None
           /\ pc = "raised" => (pc' = "prompt" /\ printed' = Append(printed, "error"))
           /\ pc # "exited"]_vars

\* C19 witness: the first turn raised and was reported, the second was answered with
\* the next exam, and the loop prompts again
C19_Witness ==
    /\ pc = "prompt"
    /\ printed = <<"error", "assistant">>
    /\ lines_read = 2
    /\ contains(default_events[3].title, response)

(* ------------------ claims on the weather of the exam day ------------------ *)

\* the run is the scenario: the user asks for the weather on the exam day and the one
\* batch of the run holds a 'next exam' calendar call and a weather call with a
\* location the lookup resolves and no on_date, in either order
exam_day_scenario ==
    /\ Len(messages) > 2
    /\ user_requested_weather_on_exam_day(messages[1].content)
    /\ Len(messages[2].tool_calls) = 2
    /\ \E i, j \in {1, 2} :
          /\ i # j
          /\ messages[2].tool_calls[i].name = "check_calendar"
          /\ contains(<<"n", "e", "x", "t", " ", "e", "x", "a", "m">>,
                      lower(arg(messages[2].tool_calls[i].args, "query", <<>>)))
          /\ resolved_undated_call(messages[2].tool_calls[j])
    /\ \A k \in 3..Len(messages) : messages[k].tool_calls = <<>>

\* the stored exam that comes next: the store of the runs holds one exam
next_stored_exam == events[CHOOSE i \in DOMAIN events : events[i].type = S_exam]

\* C20: in the scenario the final transcript holds the calendar result, the weather
\* result without date and a chained weather result for the date of the stored next
\* exam, and the composed answer contains the exam date and the forecast of the chained
\* call, not the current conditions of the call without date.
C20_ExamDayWeatherScenario ==
    (pc = "done" /\ exam_day_scenario) =>
        LET batch == messages[2].tool_calls
            w == CHOOSE j \in {1, 2} : batch[j].name = "get_weather"
            c == 3 - w
            date == next_stored_exam.date
            current == weather_get_weather(batch[w].args.location, None, "up")
            forecast == weather_get_weather(strip(batch[w].args.location), date, "up")
        IN  /\ Len(messages) = 6
            /\ messages[2 + c].name = "check_calendar"
            /\ messages[2 + c].tool_call_id = batch[c].id
            /\ contains(date, messages[2 + c].content)
            /\ messages[2 + w] = ToolMessage(current, "get_weather", batch[w].id)
            /\ messages[5] = ToolMessage(forecast, "get_weather", AUTO_CHAINED_ID)
            /\ invoked[Len(invoked)].args.on_date = date
            /\ forecast # current
            /\ contains(date, composed_response)
            /\ contains(forecast, composed_response)
            /\ ~contains(current, composed_response)
            /\ response = composed_response

\* C20 witness: the weather call came first in the batch, the chained result is in the
\* transcript and the answer holds the forecast for the exam day
C20_Witness ==
    /\ pc = "done"
    /\ exam_day_scenario
    /\ messages[2].tool_calls[1].name = "get_weather"
    /\ messages[5].tool_call_id = AUTO_CHAINED_ID
    /\ contains(<<"Forecast", " ", "for", " ">> \o L_Haifa, response)
    /\ contains(D_exam, response)

(* --------------------- claims on a location not found --------------------- *)

\* the requested call that the tool result at position k answers
call_of(k) ==
    CHOOSE call \in UNION {{messages[i].tool_calls[j] : j \in DOMAIN messages[i].tool_calls}
                              : i \in DOMAIN messages} :
        call.id = messages[k].tool_call_id

\* the last tool result of the transcript answers a weather call that passed the guard
\* on placeholders and whose location the lookup does not find
last_lookup_found_nothing ==
    /\ Len(messages) > 2
    /\ messages[Len(messages) - 1].type = "tool"
    /\ LET call == call_of(Len(messages) - 1)
       IN  /\ call.name = "get_weather"
           /\ ~placeholder_call(call)
           /\ call.args.location \notin Gazetteer

\* C21: when the weather tool is the only tool used and the lookup of the location
\* returns nothing, the weather result is the 'Location ... not found' error, without
\* temperature, and the answer is that error in the Weather section whatever the final
\* text of the model says.
C21_LocationNotFoundAnswer ==
    (pc = "done" /\ used_tool_names = {"get_weather"} /\ last_lookup_found_nothing) =>
        LET result == messages[Len(messages) - 1].content
        IN  /\ result = <<"Error:", " ", "Location", " ", "'">>
                         \o call_of(Len(messages) - 1).args.location
                         \o <<"'", " ", "not", " ", "found.">>
            /\ ~contains(<<"Temperature:">>, result)
            /\ composed_response = <<"**Weather**", "\n">> \o result
            /\ response = composed_response
            /\ final_text # <<>> => ~contains(final_text, response)

\* C21 witness: Atlantis was looked up, the model closed with a temperature for it and
\* the answer is the error
C21_Witness ==
    /\ pc = "done"
    /\ used_tool_names = {"get_weather"}
    /\ last_lookup_found_nothing
    /\ contains(<<"25C">>, final_text)
    /\ contains(<<"not", " ", "found.">>, response)

(* ------------------ claims on repeated results of a category ------------------ *)

\* the positions of the tool results of a category, and the text a result shows in a
\* section: the exam summary for a 'next exam' payload, else its trimmed content
results_of(names) ==
    {k \in DOMAIN messages : messages[k].type = "tool" /\ messages[k].name \in names}

shown(k) ==
    IF messages[k].name = "check_calendar"
    THEN exam_summary_or_raw(strip(messages[k].content))
    ELSE strip(messages[k].content)

\* C22: in a sectioned answer (tools used, not the search alone) each category of
\* results - weather, calendar, the three holiday tools together, search - shows the
\* last result of the category in transcript order, and no earlier result of the
\* category with another content is in the answer.
C22_LastResultPerCategory ==
    (pc = "done" /\ used_tool_names # {} /\ used_tool_names # {"search_course_materials"}) =>
        \A names \in {{"get_weather"}, {"check_calendar"}, HolidayNames,
                       {"search_course_materials"}} :
           \A k \in results_of(names) :
              IF \A j \in results_of(names) : j <= k
              THEN contains(shown(k), composed_response)
              ELSE \A last \in {j \in results_of(names) : \A i \in results_of(names) : i <= j} :
                      strip(messages[k].content) # strip(messages[last].content)
                      => /\ ~contains(shown(k), composed_response)
                         /\ ~contains(strip(messages[k].content), composed_response)

\* C22 witness: get_next_holiday answered before is_public_holiday and the answer
\* holds the second result only
C22_Witness ==
    /\ pc = "done"
    /\ \E j, k \in DOMAIN messages :
          /\ j < k
          /\ messages[j].type = "tool" /\ messages[j].name = "get_next_holiday"
          /\ messages[k].type = "tool" /\ messages[k].name = "is_public_holiday"
          /\ contains(strip(messages[k].content), composed_response)
          /\ ~contains(strip(messages[j].content), composed_response)
    /\ Head(composed_response) = "**Holidays**"

(* ------------------------------- C23 --------------------------------- *)

\* the transcript of a run that begins with the batch of this step: the user's
\* message and the request, nothing of the earlier steps
step_alone == <<messages[1], messages[Len(messages)]>>

\* the batches requested so far, in order
batches == SelectSeq(messages, LAMBDA m : m.type = "ai" /\ m.tool_calls # <<>>)

batch_has(batch, name) == \E i \in DOMAIN batch.tool_calls : batch.tool_calls[i].name = name

\* C23: the exam date, the weather location and the missing-on_date flag are reset
\* at the start of every tools step. A tools step appends exactly the results it
\* would append if its batch were the first of the run, whatever earlier steps
\* resolved or chained; it chains at most once, and only when its own batch holds
\* both a check_calendar call and a get_weather call without on_date. So when the
\* two calls arrive in different batches no chained call is synthesized.
C23_ChainLocalsResetEachStep ==
    [][ (pc = "tools" /\ pc' = "agent") =>
           /\ \E net \in env.nets :
                 step_results = tool_node(step_alone, net, events, clock).outputs
           /\ Len(chained_results) <= 1
           /\ chained_results # <<>> =>
                 /\ \E i \in DOMAIN step_batch : step_batch[i].name = "check_calendar"
                 /\ \E i \in DOMAIN step_batch :
                       /\ step_batch[i].name = "get_weather"
                       /\ arg(step_batch[i].args, "on_date", None) = None ]_vars

\* C23 witness: the calendar call alone in the first batch, the date-less weather
\* call alone in the second and both together in the third; the run ends with one
\* chained result, the one of the third step
C23_Witness ==
    /\ pc = "done"
    /\ Len(batches) = 3
    /\ batches[1].tool_calls = <<ToolCall(C_next_exam.name, C_next_exam.args, batches[1].tool_calls[1].id)>>
    /\ batches[2].tool_calls = <<ToolCall(W_haifa.name, W_haifa.args, batches[2].tool_calls[1].id)>>
    /\ batch_has(batches[3], "check_calendar") /\ batch_has(batches[3], "get_weather")
    /\ Len(SelectSeq(messages, LAMBDA m : m.tool_call_id = AUTO_CHAINED_ID)) = 1
    /\ messages[Len(messages) - 1].tool_call_id = AUTO_CHAINED_ID

====
